---------------------------- MODULE Spec2Model ----------------------------
(***************************************************************************)
(* State.fetch_tile and _search_hls_items of                               *)
(* innovators_crew_bloomwatch_reflex.py as a state machine.                *)
(*                                                                         *)
(* One behaviour is one session: the input setters run while no handler    *)
(* is active, then fetch_tile runs step by step.  Every remote call        *)
(* (geocode, catalog query, asset preflight, raster open/read, raster      *)
(* write, preview) is one step whose outcome is chosen nondeterministically*)
(* from what the remote side or the library can answer.                    *)
(*                                                                         *)
(* Calendar: days are integers MinDay..MaxDay (datetime.min..datetime.max);*)
(* a date string is modelled by the day it denotes, NotADate for a text    *)
(* datetime.fromisoformat rejects.  Timestamps of catalog items use the    *)
(* same unit.                                                              *)
(***************************************************************************)
EXTENDS Integers, Sequences, FiniteSets, TLC

---------------------------------------------------------------------------
(* Calendar and clock *)

\* datetime.min / datetime.max as day numbers; date.today().
MinDay == 0
MaxDay == 400
Today == 40
\* timedelta(days=15)
WindowDays == 15
\* a text that datetime.fromisoformat rejects
NotADate == -1

\* the date strings the date input can hold in this model
DateStrs == {NotADate, 10, 20, 55, 56, 395}

---------------------------------------------------------------------------
(* Bounds of the model *)

\* most calls of fetch_tile on one State
MaxRuns == 2
\* longest feature list one search POST answers with
MaxItems == 4
\* longest feature list one per-collection GET answers with
MaxCollItems == 1
\* most entries the granule feed answers with
MaxHits == 2

---------------------------------------------------------------------------
(* Program constants *)

HLS_COLLECTIONS == <<"HLSS30.v2.0", "HLSL30.v2.0">>
S30_BANDS == <<"B02", "B03", "B04", "B8A", "B11", "B12">>
L30_BANDS == <<"B02", "B03", "B04", "B05", "B06", "B07">>
\* "count": 18 of meta_template and the len(arrays) != 18 test
RequiredBands == 18
\* items[:3]
TopN == 3

\* the collection identifiers of the model: the two supported ones and other
\* strings a catalog item can carry (it.get("collection", "") included)
CollIds ==
    {"HLSS30.v2.0", "HLSL30.v2.0", "HLSS30", "HLSS3", "", "hlss30.v2.0",
     "XHLSS30", "HLSS30x"}

\* the characters of a string
Chars(str) ==
    CASE str = "HLSS30.v2.0" -> <<"H", "L", "S", "S", "3", "0", ".", "v", "2", ".", "0">>
      [] str = "HLSL30.v2.0" -> <<"H", "L", "S", "L", "3", "0", ".", "v", "2", ".", "0">>
      [] str = "HLSS30" -> <<"H", "L", "S", "S", "3", "0">>
      [] str = "HLSS3" -> <<"H", "L", "S", "S", "3">>
      [] str = "" -> <<>>
      [] str = "hlss30.v2.0" -> <<"h", "l", "s", "s", "3", "0", ".", "v", "2", ".", "0">>
      [] str = "XHLSS30" -> <<"X", "H", "L", "S", "S", "3", "0">>
      [] str = "HLSS30x" -> <<"H", "L", "S", "S", "3", "0", "x">>

\* str.startswith on character sequences
StartsWith(s, prefix) ==
    /\ Len(prefix) <= Len(s)
    /\ SubSeq(s, 1, Len(prefix)) = prefix

\* equality with the supported identifier in place of the prefix test
StartsWithHLSS30_Exact(coll_id) == coll_id = "HLSS30.v2.0"

\* coll_id.startswith("HLSS30")
StartsWithHLSS30(coll_id) == StartsWith(Chars(coll_id), Chars("HLSS30"))

_bands_for_collection(coll_id) ==
    IF StartsWithHLSS30(coll_id) THEN S30_BANDS ELSE L30_BANDS

---------------------------------------------------------------------------
(* Status texts of fetch_status *)

StStarting == "Starting tile fetch..."
StGeocoding == "Geocoding address..."
StProvide == "Provide lat/lon or a valid address."
StNoItems == "No HLS items found near that point/date. Try adjusting date."
StBackend == "Raster backend missing. Please pip install rasterio numpy in your venv."
StNoToken == "No EARTHDATA_TOKEN in environment - HLS protected assets will 401."
StUnauthorized == "Unauthorized (401/403) reading HLS asset."
StReady == "Tile ready."
StBandMissing(b) == "Band " \o b \o " missing in item; skipping."
StExpected(n) == "Expected 18 band slices, got " \o ToString(n) \o "."

---------------------------------------------------------------------------
(* Optional values *)

None == [some |-> FALSE, lat |-> 0, lon |-> 0]
Coord(la, lo) == [some |-> TRUE, lat |-> la, lon |-> lo]

NoFloat == [some |-> FALSE, v |-> 0]
Float(x) == [some |-> TRUE, v |-> x]

\* latitude texts from pole to pole, and the numbers float() reads from them
PolarTexts == <<"-90", "-89", "-60", "-48", "-15", "0", "15", "30", "45", "60",
                "75", "80", "84", "85", "89", "90">>
PolarLats == <<-90, -89, -60, -48, -15, 0, 15, 30, 45, 60, 75, 80, 84, 85, 89, 90>>

\* texts the lat / lon / address inputs can hold in this model
LatTexts == {"", "abc", "48.0", "95.0"}
LonTexts == {"", "2.0"}
AddressTexts == {"", "   ", "Madrid"}

\* float(s) for the texts of the model; "abc" makes float() raise
_safe_float(s) ==
    CASE s = "" -> NoFloat
      [] s = "48.0" -> Float(48)
      [] s = "95.0" -> Float(95)
      [] s = "2.0" -> Float(2)
      [] s = "40.000000" -> Float(40)
      [] s = "-3.000000" -> Float(-3)
      [] s \in {PolarTexts[k] : k \in 1..Len(PolarTexts)} ->
             Float(PolarLats[CHOOSE k \in 1..Len(PolarTexts) : PolarTexts[k] = s])
      [] OTHER -> NoFloat

\* f"{x:.6f}" for the coordinates the geocoder answers with
Fmt6(x) ==
    CASE x = 40 -> "40.000000"
      [] x = -3 -> "-3.000000"
      [] x = 48 -> "48.000000"
      [] x = 2 -> "2.000000"
      [] OTHER -> "?"

\* the test without strip()
NonBlank_NoStrip(s) == s # ""

\* (value or "").strip() is non-empty
NonBlank(s) == s \notin {"", "   "}

---------------------------------------------------------------------------
(* Catalog items *)

\* a missing or unparseable properties.datetime / time_start
BadStamp == -1

BandSet(bands) == {bands[i] : i \in 1..Len(bands)}

\* the STAC features the catalog can answer with: collection,
\* properties.datetime and the keys of assets
ItemS30 ==
    [collection |-> "HLSS30.v2.0", datetime |-> 20, assets |-> BandSet(S30_BANDS)]
ItemL30 ==
    [collection |-> "HLSL30.v2.0", datetime |-> 18, assets |-> BandSet(L30_BANDS)]
ItemS30NoRed ==
    [collection |-> "HLSS30.v2.0", datetime |-> 22,
     assets |-> BandSet(S30_BANDS) \ {"B04"}]
ItemL30NoTime ==
    [collection |-> "HLSL30.v2.0", datetime |-> BadStamp,
     assets |-> BandSet(L30_BANDS)]

ItemPool == {ItemS30, ItemL30, ItemS30NoRed, ItemL30NoTime}

\* the entries the granule feed can answer with: time_start and dataset_id
HitPool ==
    { [time_start |-> 19, dataset_id |-> "HLSS30"],
      [time_start |-> BadStamp, dataset_id |-> "HLSL30"] }

SeqsUpTo(S, n) == UNION {[1..k -> S] : k \in 0..n}

\* what one HTTP query can come back with: a failure (transport error,
\* error status, unparseable body) or a parsed list
Failed == [ok |-> FALSE, list |-> <<>>]
Answer(l) == [ok |-> TRUE, list |-> l]

SearchAnswers == {Failed} \cup {Answer(l) : l \in SeqsUpTo(ItemPool, MaxItems)}
CollAnswers == {Failed} \cup {Answer(l) : l \in SeqsUpTo(ItemPool, MaxCollItems)}
GranuleAnswers == {Failed} \cup {Answer(l) : l \in SeqsUpTo(HitPool, MaxHits)}

\* limit=20 of the call in fetch_tile
Limit == 20

Take(s, n) == SubSeq(s, 1, IF Len(s) < n THEN Len(s) ELSE n)

\* the fabricated feature given the band assets of its family
Synth_WithAssets(g) ==
    [collection |-> IF g.dataset_id = "HLSS30" THEN "HLSS30.v2.0" ELSE "HLSL30.v2.0",
     datetime |-> g.time_start,
     assets |-> BandSet(IF g.dataset_id = "HLSS30" THEN S30_BANDS ELSE L30_BANDS)]

\* the minimal feature strategy 4 fabricates from one granule entry
Synth(g) ==
    [collection |-> IF g.dataset_id = "HLSS30" THEN "HLSS30.v2.0" ELSE "HLSL30.v2.0",
     datetime |-> g.time_start,
     assets |-> {}]

SynthAll(hits) == [i \in 1..Len(hits) |-> Synth(hits[i])]

---------------------------------------------------------------------------
(* Ranking (fetch_tile, _dt_of and items.sort) *)

Abs(x) == IF x < 0 THEN -x ELSE x

\* _dt_of: the parsed timestamp, datetime.max when parsing raises
_dt_of(feat) == IF feat.datetime = BadStamp THEN MaxDay ELSE feat.datetime

\* the key without abs()
SortKey_Signed(feat, target) == _dt_of(feat) - target

\* key=lambda f: abs(_dt_of(f) - target)
SortKey(feat, target) == Abs(_dt_of(feat) - target)

\* list.sort is stable: x goes after every element whose key is <= its own
RECURSIVE InsertStable(_, _, _)
InsertStable(sorted, x, target) ==
    IF sorted = <<>> THEN <<x>>
    ELSE IF SortKey(Head(sorted), target) <= SortKey(x, target)
         THEN <<Head(sorted)>> \o InsertStable(Tail(sorted), x, target)
         ELSE <<x>> \o sorted

RECURSIVE SortedFrom(_, _, _)
SortedFrom(done, rest, target) ==
    IF rest = <<>> THEN done
    ELSE SortedFrom(InsertStable(done, Head(rest), target), Tail(rest), target)

\* the sort without the cut to three: every candidate stays
RankItems_KeepsAll(found, target) == SortedFrom(<<>>, found, target)

\* items.sort(key=...); items = items[:3]
RankItems(found, target) == Take(SortedFrom(<<>>, found, target), TopN)

---------------------------------------------------------------------------
(* State *)

VARIABLES
    \* fields of State
    input_lat, input_lon, input_address, date_str,
    fetch_status, tile_path, preview_png,
    \* whether the rasterio / numpy import succeeded
    backend,
    \* position of fetch_tile: "idle" before the call, "ret_..." after the
    \* return statement of that name, "raised" after an exception left it
    pc,
    \* locals of fetch_tile
    lat, lon, items, item_i, hrefs, href_i, arrays, meta_template,
    \* locals of _search_hls_items
    start_date, end_date, feats_all, coll_i,
    \* the file system under assets/
    files,
    \* history: catalog requests issued, the latest catalog answer, the list
    \* _search_hls_items returned (kept until extraction is set up), and
    \* counts of the remote calls, of the probes answered 401/403 and of the
    \* file writes of this run
    requests, last, found,
    geocodes, preflights, opens, authFails, rasterWrites, previewWrites,
    \* history: the answer of the geocoding service, the bands and the
    \* georeferencing written into the raster, and how the preview went and
    \* the stack entries it took as its channels
    geo, raster, preview,
    \* local vrt of fetch_tile: whether it refers to a WarpedVRT, made for a
    \* band of this call, that fetch_tile has not closed
    vrt,
    \* the calls of fetch_tile on this State so far: their number, and the
    \* paths, the files and the outcome of the previous call when the current
    \* one started
    run,
    \* a fetch_tile call of another session's State, working in the same
    \* assets/ directory
    other,
    \* the layer filter fields of State
    layers

fields == <<input_lat, input_lon, input_address, date_str,
            fetch_status, tile_path, preview_png>>
inputs == <<input_lat, input_lon, input_address, date_str>>
outputs == <<tile_path, preview_png, files, rasterWrites, previewWrites>>
searchLocals == <<start_date, end_date, feats_all, coll_i>>
extractLocals == <<item_i, hrefs, href_i, arrays, meta_template, vrt>>
searchHist == <<requests, last>>
probeHist == <<preflights, opens, authFails>>

vars == <<input_lat, input_lon, input_address, date_str,
          fetch_status, tile_path, preview_png, backend, pc,
          lat, lon, items, item_i, hrefs, href_i, arrays, meta_template,
          start_date, end_date, feats_all, coll_i, files,
          requests, last, found,
          geocodes, preflights, opens, authFails, rasterWrites, previewWrites,
          geo, raster, preview, vrt, run, other, layers>>

NoPath == [lat |-> 0, lon |-> 0, date |-> NotADate, ext |-> ""]
\* a name that also carries the number of the call
OutPath_PerCall(la, lo, d, ext) ==
    [lat |-> la, lon |-> lo, date |-> d, ext |-> ext, call |-> run.n]

\* hls_tile_{lat:.5f}_{lon:.5f}_{date_str}.<ext>
OutPath(la, lo, d, ext) == [lat |-> la, lon |-> lo, date |-> d, ext |-> ext]

NoMeta == [set |-> FALSE, count |-> 0, acq |-> 0, band |-> ""]
NoAnswer == [ok |-> FALSE, list |-> <<>>]
NoRaster == [bands |-> <<>>, meta |-> NoMeta]
NoPreview == [outcome |-> "none", channels |-> <<>>]

\* the first call on a fresh State: no earlier paths, files or outcome
NoCall == [lat |-> 0, lon |-> 0, date |-> NotADate, end |-> "", preview |-> "none"]
FirstRun == [n |-> 1, tile |-> NoPath, png |-> NoPath, files |-> {}, prev |-> NoCall]

\* no other session at work
NoOther ==
    [pc |-> "absent", lat |-> 0, lon |-> 0, date |-> NotADate, stack |-> <<>>]

\* The texts of the layer filter (layer names, the query) are sequences of
\* characters, so that lower(), strip(), startswith(), "in" and the regex
\* search are computed on them.  Three layer names, sorted as sorted() does:
LayerAb == <<"A", "b">>
LayerBa == <<"B", "a">>
LayerbA == <<"b", "_", "A">>

\* AVAILABLE_LAYERS, as the capabilities request answered at import time (an
\* empty list when it failed)
LayerLists == {<<>>, <<LayerBa>>, <<LayerAb, LayerBa, LayerbA>>}

\* lines 309 and 428-432: the class defaults of the filter fields
LayerDefaults(avail) ==
    [AVAILABLE_LAYERS |-> avail,
     layer_filter |-> <<>>,
     filter_mode |-> "contains",
     filtered_layers |-> avail,
     match_count |-> Len(avail),
     selected_layer |-> IF Len(avail) > 0 THEN avail[1] ELSE <<>>,
     regex_error |-> ""]

Init ==
    /\ input_lat = ""
    /\ input_lon = ""
    /\ input_address = ""
    /\ date_str = Today
    /\ fetch_status = ""
    /\ tile_path = NoPath
    /\ preview_png = NoPath
    /\ backend \in BOOLEAN
    /\ pc = "idle"
    /\ lat = NoFloat
    /\ lon = NoFloat
    /\ items = <<>>
    /\ item_i = 0
    /\ hrefs = <<>>
    /\ href_i = 0
    /\ arrays = <<>>
    /\ meta_template = NoMeta
    /\ start_date = 0
    /\ end_date = 0
    /\ feats_all = <<>>
    /\ coll_i = 0
    /\ files = {}
    /\ requests = <<>>
    /\ last = NoAnswer
    /\ found = <<>>
    /\ geocodes = 0
    /\ preflights = 0
    /\ opens = 0
    /\ authFails = 0
    /\ rasterWrites = 0
    /\ previewWrites = 0
    /\ geo = "none"
    /\ raster = NoRaster
    /\ preview = NoPreview
    /\ vrt = FALSE
    /\ run = FirstRun
    /\ other = NoOther
    /\ layers = LayerDefaults(<<>>)

---------------------------------------------------------------------------
(* Input setters *)

set_input_lat(value) ==
    /\ pc = "idle"
    /\ input_lat' = value
    /\ UNCHANGED <<input_lon, input_address, date_str, fetch_status, tile_path,
                   preview_png, backend, pc, lat, lon, items, found, files,
                   searchLocals, extractLocals, searchHist, probeHist,
                   geocodes, geo, rasterWrites, raster, previewWrites, preview,
                   run, other, layers>>

set_input_lon(value) ==
    /\ pc = "idle"
    /\ input_lon' = value
    /\ UNCHANGED <<input_lat, input_address, date_str, fetch_status, tile_path,
                   preview_png, backend, pc, lat, lon, items, found, files,
                   searchLocals, extractLocals, searchHist, probeHist,
                   geocodes, geo, rasterWrites, raster, previewWrites, preview,
                   run, other, layers>>

set_input_address(value) ==
    /\ pc = "idle"
    /\ input_address' = value
    /\ UNCHANGED <<input_lat, input_lon, date_str, fetch_status, tile_path,
                   preview_png, backend, pc, lat, lon, items, found, files,
                   searchLocals, extractLocals, searchHist, probeHist,
                   geocodes, geo, rasterWrites, raster, previewWrites, preview,
                   run, other, layers>>

\* an empty value from the date input
EmptyDate == -2

\* self.date_str = value or date.today().isoformat()
set_date_str(value) ==
    /\ pc = "idle"
    /\ date_str' = IF value = EmptyDate THEN Today ELSE value
    /\ UNCHANGED <<input_lat, input_lon, input_address, fetch_status, tile_path,
                   preview_png, backend, pc, lat, lon, items, found, files,
                   searchLocals, extractLocals, searchHist, probeHist,
                   geocodes, geo, rasterWrites, raster, previewWrites, preview,
                   run, other, layers>>

---------------------------------------------------------------------------
(* fetch_tile: locating the point *)

\* the answers of the geocoding service
GeocodeAnswers == {"error", "empty", "hit"}

\* _geocode_address: the first result's (lat, lon), None on an empty list
\* or on any exception
_geocode_address(answer) ==
    IF answer = "hit" THEN Coord(40, -3) ELSE None

\* the test with "and" for "or": one coordinate is enough to go on
Located_EitherOne(la, lo, status) ==
    IF ~la.some /\ ~lo.some
    THEN /\ fetch_status' = StProvide
         /\ pc' = "ret_provide"
    ELSE /\ fetch_status' = status
         /\ pc' = "search"

\* lines 629-634: without a coordinate the run ends, otherwise the search starts
Located(la, lo, status) ==
    IF ~la.some \/ ~lo.some
    THEN /\ fetch_status' = StProvide
         /\ pc' = "ret_provide"
    ELSE /\ fetch_status' = status
         /\ pc' = "search"

\* the call beginning by emptying the two paths
FetchTileStart_ClearsPaths ==
    /\ pc = "idle"
    /\ lat' = _safe_float(input_lat)
    /\ lon' = _safe_float(input_lon)
    /\ tile_path' = NoPath
    /\ preview_png' = NoPath
    /\ IF (~lat'.some \/ ~lon'.some) /\ NonBlank(input_address)
       THEN /\ fetch_status' = StGeocoding
            /\ pc' = "geocode"
       ELSE Located(lat', lon', StStarting)
    /\ UNCHANGED <<inputs, backend, items, found, files,
                   searchLocals, extractLocals, searchHist, probeHist,
                   geocodes, geo, rasterWrites, raster, previewWrites, preview,
                   run, other, layers>>

\* lines 619-623 (and 629-631 when no geocoding is needed)
FetchTileStart ==
    /\ pc = "idle"
    /\ lat' = _safe_float(input_lat)
    /\ lon' = _safe_float(input_lon)
    /\ IF (~lat'.some \/ ~lon'.some) /\ NonBlank(input_address)
       THEN /\ fetch_status' = StGeocoding
            /\ pc' = "geocode"
       ELSE Located(lat', lon', StStarting)
    /\ UNCHANGED <<inputs, tile_path, preview_png, backend, items, found, files,
                   searchLocals, extractLocals, searchHist, probeHist,
                   geocodes, geo, rasterWrites, raster, previewWrites, preview,
                   run, other, layers>>

\* lines 624-631
Geocode ==
    /\ pc = "geocode"
    /\ geocodes' = geocodes + 1
    /\ \E answer \in GeocodeAnswers :
         LET res == _geocode_address(answer) IN
         /\ geo' = answer
         /\ IF res.some
            THEN /\ lat' = Float(res.lat)
                 /\ lon' = Float(res.lon)
                 /\ input_lat' = Fmt6(res.lat)
                 /\ input_lon' = Fmt6(res.lon)
                 /\ Located(lat', lon', StGeocoding)
            ELSE /\ UNCHANGED <<lat, lon, input_lat, input_lon>>
                 /\ Located(lat, lon, StGeocoding)
    /\ UNCHANGED <<input_address, date_str, tile_path, preview_png, backend,
                   items, found, files, searchLocals, extractLocals,
                   searchHist, probeHist, rasterWrites, raster, previewWrites, preview,
                   run, other, layers>>

---------------------------------------------------------------------------
(* _search_hls_items *)

Min(a, b) == IF a < b THEN a ELSE b

\* lines 135: datetime.fromisoformat(dt) raises ValueError on a malformed text
ParsesAsDate(dt) == dt # NotADate

\* lines 136-137: t0 -/+ timedelta(days=15) raises OverflowError outside
\* datetime.min..datetime.max
WindowOverflows(dt) == dt - WindowDays < MinDay \/ dt + WindowDays > MaxDay

\* the window without the clamp of its end to today
SearchWindow_NoClamp(dt) ==
    [start |-> dt - WindowDays, end |-> dt + WindowDays]

\* lines 136-143: the +/- 15 day window, its end clamped to today
SearchWindow(dt) ==
    [start |-> dt - WindowDays, end |-> Min(dt + WindowDays, Today)]

Max(a, b) == IF a > b THEN a ELSE b

\* Degrees are whole numbers in this model; buffers and bounding boxes are in
\* millionths of a degree, cosines in thousandths.
Micro == 1000000
Milli == 1000

\* math.cos(math.radians(d)) in thousandths, for the latitudes of the model
\* (cos is even; at 90 the library gives 6e-17, beyond 90 a negative value)
CosDegrees == <<0, 15, 30, 40, 45, 48, 60, 75, 80, 84, 85, 89, 90, 95>>
CosValues == <<1000, 966, 866, 766, 707, 669, 500, 259, 174, 105, 87, 17, 0, -87>>
CosMilli(d) ==
    LET a == IF d < 0 THEN -d ELSE d
    IN  CosValues[CHOOSE k \in 1..Len(CosDegrees) : CosDegrees[k] = a]

MetersPerDegree == 111320
CosFloor == 100

\* the floor written as 0.01
_deg_buffer_LowFloor(lat_, meters) ==
    [dlat |-> (meters * Micro) \div MetersPerDegree,
     dlon |-> (meters * Micro)
                 \div ((MetersPerDegree * Max(10, CosMilli(lat_))) \div Milli)]

\* lines 127-131
_deg_buffer(lat_, meters) ==
    [dlat |-> (meters * Micro) \div MetersPerDegree,
     dlon |-> (meters * Micro)
                 \div ((MetersPerDegree * Max(CosFloor, CosMilli(lat_))) \div Milli)]

NoBox == [west |-> 0, south |-> 0, east |-> 0, north |-> 0]

\* lines 170-172 and 190-192: the box of 200 m around the point
SearchRadius == 200
BBox(la, lo) ==
    LET d == _deg_buffer(la, SearchRadius)
    IN  [west |-> lo * Micro - d.dlon, south |-> la * Micro - d.dlat,
         east |-> lo * Micro + d.dlon, north |-> la * Micro + d.dlat]

\* one catalog request: its "datetime" / "temporal" parameter and, for
\* strategies 2 and 3, its "bbox"
Request(k, coll) ==
    [strategy |-> k, coll |-> coll, start |-> start_date, end |-> end_date,
     bbox |-> IF k \in {2, 3} THEN BBox(lat.v, lon.v) ELSE NoBox]

\* lines 135-145
SearchBegin ==
    /\ pc = "search"
    /\ IF ~ParsesAsDate(date_str) \/ WindowOverflows(date_str)
       THEN /\ pc' = "raised"
            /\ UNCHANGED <<start_date, end_date, items>>
       ELSE LET w == SearchWindow(date_str) IN
            /\ start_date' = w.start
            /\ end_date' = w.end
            /\ IF w.start > w.end
               THEN pc' = "searched" /\ items' = <<>>
               ELSE pc' = "s1" /\ UNCHANGED items
    /\ UNCHANGED <<fields, backend, lat, lon, found, files, feats_all, coll_i,
                   extractLocals, searchHist, probeHist,
                   geocodes, geo, rasterWrites, raster, previewWrites, preview,
                   run, other, layers>>

\* strategy 1 without "if feats: return feats"
Strategy1_FallsThrough ==
    /\ pc = "s1"
    /\ requests' = Append(requests, Request(1, ""))
    /\ \E a \in SearchAnswers : last' = a
    /\ pc' = "s2"
    /\ UNCHANGED <<fields, backend, lat, lon, items, found, files, searchLocals,
                   extractLocals, probeHist,
                   geocodes, geo, rasterWrites, raster, previewWrites, preview,
                   run, other, layers>>

\* lines 152-166: POST with intersects
Strategy1 ==
    /\ pc = "s1"
    /\ requests' = Append(requests, Request(1, ""))
    /\ \E a \in SearchAnswers :
         /\ last' = a
         /\ IF a.ok /\ a.list # <<>>
            THEN pc' = "searched" /\ items' = a.list
            ELSE pc' = "s2" /\ UNCHANGED items
    /\ UNCHANGED <<fields, backend, lat, lon, found, files, searchLocals,
                   extractLocals, probeHist,
                   geocodes, geo, rasterWrites, raster, previewWrites, preview,
                   run, other, layers>>

\* strategy 2 without its try/except: a failed POST leaves the function
Strategy2_Unguarded ==
    /\ pc = "s2"
    /\ requests' = Append(requests, Request(2, ""))
    /\ \E a \in SearchAnswers :
         /\ last' = a
         /\ IF ~a.ok
            THEN pc' = "raised" /\ UNCHANGED <<feats_all, coll_i, items>>
            ELSE IF a.list # <<>>
            THEN pc' = "searched" /\ items' = a.list /\ UNCHANGED <<feats_all, coll_i>>
            ELSE pc' = "s3" /\ feats_all' = <<>> /\ coll_i' = 1 /\ UNCHANGED items
    /\ UNCHANGED <<fields, backend, lat, lon, found, files, start_date, end_date,
                   extractLocals, probeHist,
                   geocodes, geo, rasterWrites, raster, previewWrites, preview,
                   run, other, layers>>

\* lines 168-185: POST with a small bbox
Strategy2 ==
    /\ pc = "s2"
    /\ requests' = Append(requests, Request(2, ""))
    /\ \E a \in SearchAnswers :
         /\ last' = a
         /\ IF a.ok /\ a.list # <<>>
            THEN pc' = "searched" /\ items' = a.list /\ UNCHANGED <<feats_all, coll_i>>
            ELSE pc' = "s3" /\ feats_all' = <<>> /\ coll_i' = 1 /\ UNCHANGED items
    /\ UNCHANGED <<fields, backend, lat, lon, found, files, start_date, end_date,
                   extractLocals, probeHist,
                   geocodes, geo, rasterWrites, raster, previewWrites, preview,
                   run, other, layers>>

\* lines 187-205: one GET per collection; the concatenation is returned,
\* empty or not, unless a GET fails (feats_all and the loop variable end
\* with the return)
Strategy3 ==
    /\ pc = "s3"
    /\ requests' = Append(requests, Request(3, HLS_COLLECTIONS[coll_i]))
    /\ \E a \in CollAnswers :
         /\ last' = a
         /\ IF ~a.ok
            THEN pc' = "s4" /\ UNCHANGED <<feats_all, coll_i, items>>
            ELSE IF coll_i = Len(HLS_COLLECTIONS)
                 THEN /\ pc' = "searched"
                      /\ items' = feats_all \o a.list
                      /\ feats_all' = <<>>
                      /\ coll_i' = 0
                 ELSE /\ pc' = "s3"
                      /\ feats_all' = feats_all \o a.list
                      /\ coll_i' = coll_i + 1
                      /\ UNCHANGED items
    /\ UNCHANGED <<fields, backend, lat, lon, found, files, start_date, end_date,
                   extractLocals, probeHist,
                   geocodes, geo, rasterWrites, raster, previewWrites, preview,
                   run, other, layers>>

\* the granule query asked again after a failure
Strategy4_RetriesOnFailure ==
    /\ pc = "s4"
    /\ requests' = Append(requests, Request(4, ""))
    /\ \E a \in GranuleAnswers :
         /\ last' = a
         /\ items' = IF a.ok /\ a.list # <<>>
                     THEN SynthAll(Take(a.list, Limit))
                     ELSE <<>>
         /\ pc' = IF a.ok THEN "searched" ELSE "s4"
    /\ UNCHANGED <<fields, backend, lat, lon, found, files, searchLocals,
                   extractLocals, probeHist,
                   geocodes, geo, rasterWrites, raster, previewWrites, preview,
                   run, other, layers>>

\* lines 206-230: the granule fallback, entered from the except branch of
\* strategy 3 only
Strategy4 ==
    /\ pc = "s4"
    /\ requests' = Append(requests, Request(4, ""))
    /\ \E a \in GranuleAnswers :
         /\ last' = a
         /\ items' = IF a.ok /\ a.list # <<>>
                     THEN SynthAll(Take(a.list, Limit))
                     ELSE <<>>
    /\ pc' = "searched"
    /\ UNCHANGED <<fields, backend, lat, lon, found, files, searchLocals,
                   extractLocals, probeHist,
                   geocodes, geo, rasterWrites, raster, previewWrites, preview,
                   run, other, layers>>

---------------------------------------------------------------------------
(* fetch_tile: ranking and set-up *)

\* lines 635-655: the empty test, then sort by time distance and keep three
Rank ==
    /\ pc = "searched"
    /\ IF items = <<>>
       THEN /\ fetch_status' = StNoItems
            /\ pc' = "ret_noitems"
            /\ UNCHANGED <<items, found>>
       ELSE /\ items' = RankItems(items, date_str)
            /\ found' = items
            /\ pc' = "ranked"
            /\ UNCHANGED fetch_status
    /\ UNCHANGED <<inputs, tile_path, preview_png, backend, lat, lon, files,
                   searchLocals, extractLocals, searchHist, probeHist,
                   geocodes, geo, rasterWrites, raster, previewWrites, preview,
                   run, other, layers>>

\* lines 657-683: the backend test, the empty band stack, the token warning
Setup ==
    /\ pc = "ranked"
    /\ found' = <<>>
    /\ last' = NoAnswer
    /\ IF ~backend
       THEN /\ fetch_status' = StBackend
            /\ pc' = "ret_backend"
            /\ UNCHANGED <<arrays, meta_template, item_i>>
       ELSE /\ \E token \in BOOLEAN :
                 fetch_status' = IF token THEN fetch_status ELSE StNoToken
            /\ arrays' = <<>>
            /\ meta_template' = NoMeta
            /\ item_i' = 1
            /\ pc' = "item"
    /\ UNCHANGED <<inputs, tile_path, preview_png, backend, lat, lon, items, files,
                   searchLocals, hrefs, href_i, requests, probeHist,
                   geocodes, geo, rasterWrites, raster, previewWrites, preview,
                   vrt, run, other, layers>>

---------------------------------------------------------------------------
(* fetch_tile: band extraction *)

\* index of the first band code without an asset, 0 when all are present
RECURSIVE FirstMissingFrom(_, _, _)
FirstMissingFrom(assets, bands, i) ==
    IF i > Len(bands) THEN 0
    ELSE IF bands[i] \notin assets THEN i
    ELSE FirstMissingFrom(assets, bands, i + 1)

FirstMissing(assets, bands) == FirstMissingFrom(assets, bands, 1)

\* the loop without "hrefs = []" before the break: the hrefs collected
\* before the missing band survive
Hrefs_KeepPartial(assets, bands) ==
    IF FirstMissing(assets, bands) = 0 THEN bands
    ELSE SubSeq(bands, 1, FirstMissing(assets, bands) - 1)

\* lines 704-711: one href per band, emptied again when a band is missing
\* (an href is identified by the band code of its asset)
Hrefs(assets, bands) ==
    IF FirstMissing(assets, bands) = 0 THEN bands ELSE <<>>

\* lines 685-713
NextItem ==
    /\ pc = "item"
    /\ IF item_i > Len(items)
       THEN /\ pc' = "check"
            /\ UNCHANGED <<fetch_status, item_i, hrefs, href_i>>
       ELSE LET it == items[item_i]
                bands == _bands_for_collection(it.collection)
                h == Hrefs(it.assets, bands)
                m == FirstMissing(it.assets, bands)
            IN  /\ fetch_status' = IF m # 0 THEN StBandMissing(bands[m])
                                   ELSE fetch_status
                /\ IF h = <<>>
                   THEN /\ item_i' = item_i + 1
                        /\ pc' = "item"
                        /\ UNCHANGED <<hrefs, href_i>>
                   ELSE /\ hrefs' = h
                        /\ href_i' = 1
                        /\ pc' = "preflight"
                        /\ UNCHANGED item_i
    /\ UNCHANGED <<inputs, tile_path, preview_png, backend, lat, lon, items, found,
                   files, searchLocals, arrays, meta_template, searchHist,
                   probeHist, geocodes, geo, rasterWrites, raster, previewWrites, preview,
                   vrt, run, other, layers>>

\* what the ranged GET of the preflight can come back with: an HTTP status,
\* 0 for an exception of requests.get
ProbeOutcomes == {0, 206, 401, 403, 404}

\* the fatal test without 403
IsAuthFailure_Only401(code) == code = 401

\* line 720
IsAuthFailure(code) == code \in {401, 403}

\* lines 717-727
Preflight ==
    /\ pc = "preflight"
    /\ preflights' = preflights + 1
    /\ \E code \in ProbeOutcomes :
         /\ authFails' = authFails + (IF code \in {401, 403} THEN 1 ELSE 0)
         /\ IF IsAuthFailure(code)
            THEN /\ fetch_status' = StUnauthorized
                 /\ pc' = "ret_unauth"
            ELSE /\ pc' = "open"
                 /\ UNCHANGED fetch_status
    /\ UNCHANGED <<inputs, tile_path, preview_png, backend, lat, lon, items, found,
                   files, searchLocals, extractLocals, searchHist, opens,
                   geocodes, geo, rasterWrites, raster, previewWrites, preview,
                   run, other, layers>>

\* the georeferencing overwritten by every band read (that of the last one)
MetaAfterRead_EveryBand(meta, acq, band) ==
    [set |-> TRUE, count |-> RequiredBands, acq |-> acq, band |-> band]

\* lines 745-756: meta_template is filled only while it is None; it carries
\* the transform, height and width of the read identified by (acq, band)
MetaAfterRead(meta, acq, band) ==
    IF meta.set THEN meta
    ELSE [set |-> TRUE, count |-> RequiredBands, acq |-> acq, band |-> band]

\* lines 729-743, what one band's open / window / read can come to: the
\* source is in EPSG:4326 and read directly, or it is wrapped in a WarpedVRT
\* and read through it; rasterio.open, the WarpedVRT constructor or either
\* read can raise
OpenOutcomes ==
    {"read", "warped read", "open fails", "read fails", "wrap fails",
     "warped read fails"}

\* the band's array was obtained
ReadDone(how) == how \in {"read", "warped read"}

\* line 734: vrt = WarpedVRT(src, ...) is bound outside any with statement
\* and never closed, so once the constructor has returned the wrapper (and
\* the source dataset it keeps a reference to) lives as long as the local
\* vrt refers to it; rasterio.open alone is scoped by its with statement
WrapperLeft(how) == how \in {"warped read", "warped read fails"}

\* lines 729-756: open, window, read; any failure of rasterio leaves
\* fetch_tile as an exception
OpenRead ==
    /\ pc = "open"
    /\ opens' = opens + 1
    /\ \E how \in OpenOutcomes :
         /\ vrt' = (vrt \/ WrapperLeft(how))
         /\ IF ~ReadDone(how)
            THEN /\ pc' = "raised"
                 /\ UNCHANGED <<arrays, meta_template, item_i, href_i>>
            ELSE
              /\ arrays' = Append(arrays, [acq |-> item_i, band |-> hrefs[href_i]])
              /\ meta_template' = MetaAfterRead(meta_template, item_i, hrefs[href_i])
              /\ IF href_i = Len(hrefs)
                 THEN item_i' = item_i + 1 /\ pc' = "item" /\ UNCHANGED href_i
                 ELSE href_i' = href_i + 1 /\ pc' = "preflight" /\ UNCHANGED item_i
    /\ UNCHANGED <<fields, backend, lat, lon, items, found, files, searchLocals,
                   hrefs, searchHist, preflights, authFails,
                   geocodes, geo, rasterWrites, raster, previewWrites, preview,
                   run, other, layers>>

---------------------------------------------------------------------------
(* fetch_tile: count check and output *)

\* the count test weakened to "some band was read"
StackComplete_AnyBand(stack) == Len(stack) > 0

\* line 757
StackComplete(stack) == Len(stack) = RequiredBands

\* lines 757-763
CountCheck ==
    /\ pc = "check"
    /\ IF ~StackComplete(arrays)
       THEN /\ fetch_status' = StExpected(Len(arrays))
            /\ pc' = "ret_count"
       ELSE /\ pc' = "write"
            /\ UNCHANGED fetch_status
    /\ UNCHANGED <<inputs, tile_path, preview_png, backend, lat, lon, items, found,
                   files, searchLocals, extractLocals, searchHist, probeHist,
                   geocodes, geo, rasterWrites, raster, previewWrites, preview,
                   run, other, layers>>

\* the bands written last array first
BandsWritten_Reversed(stack, n) ==
    [i \in 1..n |-> stack[Len(stack) + 1 - i]]

\* lines 771-772: enumerate(arrays, start=1) writes array i as band i; n is
\* the number of bands written before the loop ended
BandsWritten(stack, n) == [i \in 1..n |-> stack[i]]

\* lines 765-772: the raster is created and its bands written; a failure
\* leaves fetch_tile as an exception, before the file exists or after any
\* number of its bands was written
WriteRaster ==
    /\ pc = "write"
    /\ \E outcome \in {"ok", "fail before create", "fail after create"} :
         /\ IF outcome = "fail before create"
            THEN UNCHANGED <<files, rasterWrites, raster>>
            ELSE /\ files' = files \cup {OutPath(lat.v, lon.v, date_str, "tif")}
                 /\ rasterWrites' = rasterWrites + 1
                 /\ \E n \in IF outcome = "ok" THEN {Len(arrays)}
                              ELSE 0..(Len(arrays) - 1) :
                      raster' = [bands |-> BandsWritten(arrays, n),
                                 meta |-> meta_template]
         /\ pc' = IF outcome = "ok" THEN "preview" ELSE "raised"
    /\ UNCHANGED <<fields, backend, lat, lon, items, found, searchLocals,
                   extractLocals, searchHist, probeHist, geocodes, geo, previewWrites, preview,
                   run, other, layers>>

Reverse(s) == [i \in 1..Len(s) |-> s[Len(s) + 1 - i]]

\* python's s[-6:-3]: the elements at 0-based positions max(Len-6, 0) up to,
\* not including, max(Len-3, 0)
SliceMinus6ToMinus3(s) ==
    LET lo == IF Len(s) > 6 THEN Len(s) - 6 ELSE 0
        hi == IF Len(s) > 3 THEN Len(s) - 3 ELSE 0
    IN  SubSeq(s, lo + 1, hi)

\* the slice taken without the reversal
PreviewChannels_NoReverse(stack) == SliceMinus6ToMinus3(stack)

\* line 776: arrays[-6:-3][::-1], stacked as the three channels of the image
PreviewChannels(stack) == Reverse(SliceMinus6ToMinus3(stack))

\* the preview without its try/except: a failure leaves fetch_tile at once
Preview_Unguarded ==
    /\ pc = "preview"
    /\ \E outcome \in {"ok", "fail before save", "fail in save"} :
         /\ IF outcome = "fail before save"
            THEN UNCHANGED <<files, previewWrites>>
            ELSE /\ files' = files \cup {OutPath(lat.v, lon.v, date_str, "png")}
                 /\ previewWrites' = previewWrites + 1
         /\ preview' = [outcome  |-> IF outcome = "ok" THEN "ok" ELSE "failed",
                        channels |-> IF outcome = "ok"
                                     THEN PreviewChannels(arrays) ELSE <<>>]
         /\ IF outcome = "ok"
            THEN /\ preview_png' = OutPath(lat.v, lon.v, date_str, "png")
                 /\ tile_path' = OutPath(lat.v, lon.v, date_str, "tif")
                 /\ fetch_status' = StReady
                 /\ pc' = "ret_ready"
            ELSE /\ pc' = "raised"
                 /\ UNCHANGED <<preview_png, tile_path, fetch_status>>
    /\ UNCHANGED <<inputs, backend, lat, lon, items, found, searchLocals,
                   extractLocals, searchHist, probeHist, geocodes, geo,
                   rasterWrites, raster,
                   run, other, layers>>

\* lines 774-791: the preview is best effort; then the paths and the status
Preview ==
    /\ pc = "preview"
    /\ \E outcome \in {"ok", "fail before save", "fail in save"} :
         /\ IF outcome = "fail before save"
            THEN UNCHANGED <<files, previewWrites>>
            ELSE /\ files' = files \cup {OutPath(lat.v, lon.v, date_str, "png")}
                 /\ previewWrites' = previewWrites + 1
         /\ preview' = [outcome  |-> IF outcome = "ok" THEN "ok" ELSE "failed",
                        channels |-> IF outcome = "ok"
                                     THEN PreviewChannels(arrays) ELSE <<>>]
         /\ preview_png' = IF outcome = "ok"
                           THEN OutPath(lat.v, lon.v, date_str, "png")
                           ELSE NoPath
    /\ tile_path' = OutPath(lat.v, lon.v, date_str, "tif")
    /\ fetch_status' = StReady
    /\ pc' = "ret_ready"
    /\ UNCHANGED <<inputs, backend, lat, lon, items, found, searchLocals,
                   extractLocals, searchHist, probeHist, geocodes, geo, rasterWrites, raster,
                   run, other, layers>>

---------------------------------------------------------------------------
(* Specification *)

\* the return statements of fetch_tile
ReturnSites == {"ret_provide", "ret_noitems", "ret_backend", "ret_unauth",
                "ret_count", "ret_ready"}
\* the positions inside _search_hls_items at which a catalog query is issued
QuerySites == {"s1", "s2", "s3", "s4"}

Next ==
    \/ \E v \in LatTexts : set_input_lat(v)
    \/ \E v \in LonTexts : set_input_lon(v)
    \/ \E v \in AddressTexts : set_input_address(v)
    \/ \E v \in DateStrs \cup {EmptyDate} : set_date_str(v)
    \/ FetchTileStart
    \/ Geocode
    \/ SearchBegin
    \/ Strategy1
    \/ Strategy2
    \/ Strategy3
    \/ Strategy4
    \/ Rank
    \/ Setup
    \/ NextItem
    \/ Preflight
    \/ OpenRead
    \/ CountCheck
    \/ WriteRaster
    \/ Preview

Spec == Init /\ [][Next]_vars

\* _bands_for_collection applied to the identifier of each item of a list:
\* fetch_tile as the band extraction starts (the state Setup leaves after a
\* search of day 20 answered by strategy 1), with up to three items that
\* carry an asset for every band code
AllBands == BandSet(S30_BANDS) \cup BandSet(L30_BANDS)
BandsItems ==
    {[collection |-> id, datetime |-> 20, assets |-> AllBands] : id \in CollIds}

BandsInit ==
    /\ items \in SeqsUpTo(BandsItems, TopN) \ {<<>>}
    /\ input_lat = "48.0"
    /\ input_lon = "2.0"
    /\ input_address = ""
    /\ date_str = 20
    /\ fetch_status = StStarting
    /\ tile_path = NoPath
    /\ preview_png = NoPath
    /\ backend = TRUE
    /\ pc = "item"
    /\ lat = Float(48)
    /\ lon = Float(2)
    /\ item_i = 1
    /\ hrefs = <<>>
    /\ href_i = 0
    /\ arrays = <<>>
    /\ meta_template = NoMeta
    /\ start_date = SearchWindow(20).start
    /\ end_date = SearchWindow(20).end
    /\ feats_all = <<>>
    /\ coll_i = 0
    /\ files = {}
    /\ requests = <<[strategy |-> 1, coll |-> "",
                     start |-> SearchWindow(20).start,
                     end |-> SearchWindow(20).end]>>
    /\ last = NoAnswer
    /\ found = <<>>
    /\ geocodes = 0
    /\ preflights = 0
    /\ opens = 0
    /\ authFails = 0
    /\ rasterWrites = 0
    /\ previewWrites = 0
    /\ geo = "none"
    /\ raster = NoRaster
    /\ preview = NoPreview
    /\ vrt = FALSE
    /\ run = FirstRun
    /\ other = NoOther
    /\ layers = LayerDefaults(<<>>)

BandsNext == NextItem \/ Preflight \/ OpenRead \/ CountCheck

BandsSpec == BandsInit /\ [][BandsNext]_vars

---------------------------------------------------------------------------
(* fetch_tile called again on the same State *)

\* the event handler has ended and fetch_tile is called once more: its
\* locals and this model's per-call history start afresh, the fields of
\* State and the files under assets/ stay
NewRun ==
    /\ pc \in ReturnSites \cup {"raised"}
    /\ run.n < MaxRuns
    /\ run' = [n |-> run.n + 1,
               tile |-> tile_path,
               png |-> preview_png,
               files |-> files,
               prev |-> [lat |-> lat.v, lon |-> lon.v, date |-> date_str,
                         end |-> pc, preview |-> preview.outcome]]
    /\ pc' = "idle"
    /\ lat' = NoFloat
    /\ lon' = NoFloat
    /\ items' = <<>>
    /\ item_i' = 0
    /\ hrefs' = <<>>
    /\ href_i' = 0
    /\ arrays' = <<>>
    /\ meta_template' = NoMeta
    /\ vrt' = FALSE
    /\ start_date' = 0
    /\ end_date' = 0
    /\ feats_all' = <<>>
    /\ coll_i' = 0
    /\ requests' = <<>>
    /\ last' = NoAnswer
    /\ found' = <<>>
    /\ geocodes' = 0
    /\ preflights' = 0
    /\ opens' = 0
    /\ authFails' = 0
    /\ rasterWrites' = 0
    /\ previewWrites' = 0
    /\ geo' = "none"
    /\ raster' = NoRaster
    /\ preview' = NoPreview
    /\ UNCHANGED <<fields, backend, files, other, layers>>

\* the catalog answers of the repeated calls: three complete items, or
\* three items of which one lacks a band
RepeatAnswers ==
    {Answer(<<ItemS30, ItemL30, ItemS30>>),
     Answer(<<ItemS30, ItemS30NoRed, ItemL30>>)}

\* repeated calls with the point typed in or left out, a date with items
\* and one past the search window, and strategy 1 answering
RepeatNext ==
    \/ \E v \in {"", "48.0"} : set_input_lat(v)
    \/ set_input_lon("2.0")
    \/ \E v \in {20, 56} : set_date_str(v)
    \/ FetchTileStart
    \/ SearchBegin
    \/ (Strategy1 /\ last' \in RepeatAnswers)
    \/ Rank
    \/ Setup
    \/ NextItem
    \/ Preflight
    \/ OpenRead
    \/ CountCheck
    \/ WriteRaster
    \/ Preview
    \/ NewRun

RepeatSpec == Init /\ [][RepeatNext]_vars

---------------------------------------------------------------------------
(* The modular application: state/app_state.py and api/hls.py *)

\* utils/helpers.py safe_float: None for an empty or blank text and for one
\* float() rejects
safe_float(s) ==
    CASE s \in {"", "   "} -> NoFloat
      [] s = "48.0" -> Float(48)
      [] s = "95.0" -> Float(95)
      [] s = "2.0" -> Float(2)
      [] s = "40.000000" -> Float(40)
      [] s = "-3.000000" -> Float(-3)
      [] OTHER -> NoFloat

\* HLSClient.geocode_address: the first result's (lat, lon); None on an
\* empty list and on any exception
geocode_address(answer) ==
    IF answer = "hit" THEN Coord(40, -3) ELSE None

\* app_state.py lines 402-405 and 414-416; with a coordinate the call goes
\* on to hls_client.fetch_hls_tile
App_Located(la, lo, status) ==
    IF ~la.some \/ ~lo.some
    THEN /\ fetch_status' = StProvide
         /\ pc' = "ret_provide"
    ELSE /\ fetch_status' = status
         /\ pc' = "client_search"

App_FetchTileStart ==
    /\ pc = "idle"
    /\ lat' = safe_float(input_lat)
    /\ lon' = safe_float(input_lon)
    /\ IF (~lat'.some \/ ~lon'.some) /\ NonBlank(input_address)
       THEN /\ fetch_status' = StGeocoding
            /\ pc' = "geocode"
       ELSE App_Located(lat', lon', StStarting)
    /\ UNCHANGED <<inputs, tile_path, preview_png, backend, items, found, files,
                   searchLocals, extractLocals, searchHist, probeHist,
                   geocodes, geo, rasterWrites, raster, previewWrites, preview,
                   run, other, layers>>

\* app_state.py lines 406-416
App_Geocode ==
    /\ pc = "geocode"
    /\ geocodes' = geocodes + 1
    /\ \E answer \in GeocodeAnswers :
         LET res == geocode_address(answer) IN
         /\ geo' = answer
         /\ IF res.some
            THEN /\ lat' = Float(res.lat)
                 /\ lon' = Float(res.lon)
                 /\ input_lat' = Fmt6(res.lat)
                 /\ input_lon' = Fmt6(res.lon)
                 /\ App_Located(lat', lon', StGeocoding)
            ELSE /\ UNCHANGED <<lat, lon, input_lat, input_lon>>
                 /\ App_Located(lat, lon, StGeocoding)
    /\ UNCHANGED <<input_address, date_str, tile_path, preview_png, backend,
                   items, found, files, searchLocals, extractLocals,
                   searchHist, probeHist, rasterWrites, raster, previewWrites,
                   preview, run, other, layers>>

\* hls.py line 71: the collections in the order search_hls_items asks them
ClientCollections == <<"HLSL30.v2.0", "HLSS30.v2.0">>
\* hls.py lines 68-69: timedelta(days=30) either side of the target
ClientWindowDays == 30
\* hls.py line 132: fetch_hls_tile asks for limit=3
ClientLimit == 3

\* hls.py lines 62-66: the target date, now when dt does not parse
ClientTarget(dt) == IF ParsesAsDate(dt) THEN dt ELSE Today

\* hls.py lines 88-97: the features of one answer that carry a datetime
\* fromisoformat accepts
RECURSIVE WithDatetime(_)
WithDatetime(l) ==
    IF l = <<>> THEN <<>>
    ELSE IF l[1].datetime = BadStamp THEN WithDatetime(Tail(l))
    ELSE <<l[1]>> \o WithDatetime(Tail(l))

\* hls.py lines 55-105, one turn of the loop over the collections: a GET
\* that fails, like the window arithmetic leaving the calendar, ends the
\* search in the except branch with an empty list; after the last
\* collection the features are sorted by time distance and cut to limit
search_hls_items ==
    /\ pc = "client_search"
    /\ LET target == ClientTarget(date_str)
           c == coll_i + 1
       IN
       IF target - ClientWindowDays < MinDay \/ target + ClientWindowDays > MaxDay
       THEN /\ items' = <<>>
            /\ pc' = "client_searched"
            /\ UNCHANGED <<requests, last, feats_all, coll_i, start_date, end_date>>
       ELSE
         /\ start_date' = target - ClientWindowDays
         /\ end_date' = target + ClientWindowDays
         /\ requests' = Append(requests,
                [strategy |-> 0, coll |-> ClientCollections[c],
                 start |-> start_date', end |-> end_date'])
         /\ \E a \in CollAnswers :
              /\ last' = a
              /\ IF ~a.ok
                 THEN /\ items' = <<>>
                      /\ feats_all' = <<>>
                      /\ coll_i' = 0
                      /\ pc' = "client_searched"
                 ELSE IF c = Len(ClientCollections)
                 THEN /\ items' = Take(SortedFrom(<<>>,
                                          feats_all \o WithDatetime(a.list), target),
                                      ClientLimit)
                      /\ feats_all' = <<>>
                      /\ coll_i' = 0
                      /\ pc' = "client_searched"
                 ELSE /\ feats_all' = feats_all \o WithDatetime(a.list)
                      /\ coll_i' = c
                      /\ pc' = "client_search"
                      /\ UNCHANGED items
    /\ UNCHANGED <<fields, backend, lat, lon, found, files, extractLocals,
                   probeHist, geocodes, geo, rasterWrites, raster, previewWrites,
                   preview, run, other, layers>>

\* hls.py lines 129-145 and app_state.py lines 418-428: without items the
\* error text becomes the status; with items fetch_hls_tile answers with the
\* two names, reading and writing nothing, and fetch_tile reports them
fetch_hls_tile ==
    /\ pc = "client_searched"
    /\ IF items = <<>>
       THEN /\ fetch_status' = StNoItems
            /\ pc' = "ret_noitems"
            /\ UNCHANGED <<tile_path, preview_png>>
       ELSE /\ tile_path' = OutPath(lat.v, lon.v, date_str, "tif")
            /\ preview_png' = OutPath(lat.v, lon.v, date_str, "png")
            /\ fetch_status' = StReady
            /\ pc' = "ret_ready"
    /\ UNCHANGED <<inputs, backend, lat, lon, items, found, files, searchLocals,
                   extractLocals, searchHist, probeHist, geocodes, geo,
                   rasterWrites, raster, previewWrites, preview,
                   run, other, layers>>

AppNext ==
    \/ \E v \in LatTexts : set_input_lat(v)
    \/ \E v \in LonTexts : set_input_lon(v)
    \/ \E v \in AddressTexts : set_input_address(v)
    \/ \E v \in DateStrs \cup {EmptyDate} : set_date_str(v)
    \/ App_FetchTileStart
    \/ App_Geocode
    \/ search_hls_items
    \/ fetch_hls_tile

AppSpec == Init /\ [][AppNext]_vars

---------------------------------------------------------------------------
(* The search at every latitude *)

\* fetch_tile has parsed the coordinate and is about to search; the latitude
\* is any of PolarTexts or one of the out-of-range 95.0 and the in-range 48.0
BufferInit ==
    /\ input_lat \in {PolarTexts[k] : k \in 1..Len(PolarTexts)} \cup {"48.0", "95.0"}
    /\ input_lon = "2.0"
    /\ input_address = ""
    /\ date_str = 20
    /\ fetch_status = StStarting
    /\ tile_path = NoPath
    /\ preview_png = NoPath
    /\ backend = TRUE
    /\ pc = "search"
    /\ lat = _safe_float(input_lat)
    /\ lon = _safe_float(input_lon)
    /\ item_i = 0
    /\ hrefs = <<>>
    /\ href_i = 0
    /\ arrays = <<>>
    /\ meta_template = NoMeta
    /\ start_date = 0
    /\ end_date = 0
    /\ feats_all = <<>>
    /\ coll_i = 0
    /\ items = <<>>
    /\ files = {}
    /\ requests = <<>>
    /\ last = NoAnswer
    /\ found = <<>>
    /\ geocodes = 0
    /\ preflights = 0
    /\ opens = 0
    /\ authFails = 0
    /\ rasterWrites = 0
    /\ previewWrites = 0
    /\ geo = "none"
    /\ raster = NoRaster
    /\ preview = NoPreview
    /\ vrt = FALSE
    /\ run = FirstRun
    /\ other = NoOther
    /\ layers = LayerDefaults(<<>>)

BufferNext == SearchBegin \/ Strategy1 \/ Strategy2 \/ Strategy3 \/ Strategy4

BufferSpec == BufferInit /\ [][BufferNext]_vars

---------------------------------------------------------------------------
(* The layer filter: set_layer_filter and set_filter_mode *)

\* str.lower() on one character of the model's alphabet
LowerChar(c) == CASE c = "A" -> "a" [] c = "B" -> "b" [] OTHER -> c
lower(s) == [i \in 1..Len(s) |-> LowerChar(s[i])]

RECURSIVE lstrip(_)
lstrip(s) == IF s # <<>> /\ Head(s) = " " THEN lstrip(Tail(s)) ELSE s
RECURSIVE rstrip(_)
rstrip(s) ==
    IF s # <<>> /\ s[Len(s)] = " " THEN rstrip(SubSeq(s, 1, Len(s) - 1)) ELSE s
strip(s) == rstrip(lstrip(s))

startswith(s, p) == Len(p) <= Len(s) /\ SubSeq(s, 1, Len(p)) = p
\* p in s
contains(s, p) ==
    \E i \in 1..(Len(s) - Len(p) + 1) : SubSeq(s, i, i + Len(p) - 1) = p

\* re.compile on patterns made of letters, "_", " ", "^" and "(": a "(" is
\* never closed, which is re.error; everything else compiles
RegexCompiles(q) == \A i \in 1..Len(q) : q[i] # "("

\* the compiled pattern matched at one position, re.IGNORECASE: "^" holds at
\* the start of the text only, any other character stands for itself
RECURSIVE MatchAt(_, _, _)
MatchAt(pat, s, pos) ==
    IF pat = <<>> THEN TRUE
    ELSE IF Head(pat) = "^" THEN pos = 1 /\ MatchAt(Tail(pat), s, pos)
    ELSE /\ pos <= Len(s)
         /\ LowerChar(s[pos]) = LowerChar(Head(pat))
         /\ MatchAt(Tail(pat), s, pos + 1)

\* pattern.search(lid) is not None
search(pat, s) == \E pos \in 1..(Len(s) + 1) : MatchAt(pat, s, pos)

\* (self.filter_mode or "contains").lower()
ModeOf(filter_mode) ==
    CASE filter_mode = "" -> "contains"
      [] filter_mode = "REGEX" -> "regex"
      [] OTHER -> filter_mode

IsIn(x, list) == \E i \in 1..Len(list) : list[i] = x

InvalidRegexText == "Invalid regex: missing ), unterminated subpattern"

\* lines 434-460, with the value regex_error has after line 439
FilterWith(L, value, cleared) ==
    LET q == value
        q_lower == lower(strip(q))
        mode == ModeOf(L.filter_mode)
        avail == L.AVAILABLE_LAYERS
        failed == mode = "regex" /\ ~RegexCompiles(q)
        Keeps(lid) ==
            IF mode = "prefix" THEN startswith(lower(lid), q_lower)
            ELSE IF mode = "regex" THEN search(q, lid)
            ELSE contains(lower(lid), q_lower)
        fl == IF q_lower = <<>> THEN avail
              ELSE IF failed THEN <<>>
              ELSE SelectSeq(avail, Keeps)
    IN  [AVAILABLE_LAYERS |-> avail,
         layer_filter |-> value,
         filter_mode |-> L.filter_mode,
         filtered_layers |-> fl,
         match_count |-> Len(fl),
         selected_layer |-> IF ~IsIn(L.selected_layer, fl) /\ fl # <<>>
                            THEN fl[1] ELSE L.selected_layer,
         regex_error |-> IF q_lower # <<>> /\ failed
                         THEN InvalidRegexText ELSE cleared]

\* set_layer_filter without line 439: the message of an earlier call stays
Refilter_KeepsError(L, value) == FilterWith(L, value, L.regex_error)

\* lines 434-460: the fields after set_layer_filter(value)
Refilter(L, value) == FilterWith(L, value, "")

\* what is typed into the filter box, and the modes the selector can send
Queries ==
    {<<>>, <<" ">>, <<"a">>, <<" ", "B">>, <<"b", "_">>, <<"^", "b">>,
     <<"x">>, <<"(">>, <<"a", "(">>}
Modes == {"", "contains", "prefix", "regex", "REGEX", "fuzzy"}

set_layer_filter ==
    /\ pc = "idle"
    /\ \E value \in Queries : layers' = Refilter(layers, value)
    /\ UNCHANGED <<fields, backend, lat, lon, items, found, files, searchLocals,
                   extractLocals, searchHist, probeHist, geocodes, geo, pc,
                   rasterWrites, raster, previewWrites, preview, run, other>>

\* lines 462-465
set_filter_mode ==
    /\ pc = "idle"
    /\ \E value \in Modes :
         layers' = Refilter([layers EXCEPT !.filter_mode =
                                IF value = "" THEN "contains" ELSE value],
                            layers.layer_filter)
    /\ UNCHANGED <<fields, backend, lat, lon, items, found, files, searchLocals,
                   extractLocals, searchHist, probeHist, geocodes, geo, pc,
                   rasterWrites, raster, previewWrites, preview, run, other>>

\* a fresh State, whatever the capabilities request gave at import time
FilterInit ==
    /\ layers \in {LayerDefaults(avail) : avail \in LayerLists}
    /\ input_lat = ""
    /\ input_lon = ""
    /\ input_address = ""
    /\ date_str = Today
    /\ fetch_status = ""
    /\ tile_path = NoPath
    /\ preview_png = NoPath
    /\ backend \in BOOLEAN
    /\ pc = "idle"
    /\ lat = NoFloat
    /\ lon = NoFloat
    /\ items = <<>>
    /\ item_i = 0
    /\ hrefs = <<>>
    /\ href_i = 0
    /\ arrays = <<>>
    /\ meta_template = NoMeta
    /\ start_date = 0
    /\ end_date = 0
    /\ feats_all = <<>>
    /\ coll_i = 0
    /\ files = {}
    /\ requests = <<>>
    /\ last = NoAnswer
    /\ found = <<>>
    /\ geocodes = 0
    /\ preflights = 0
    /\ opens = 0
    /\ authFails = 0
    /\ rasterWrites = 0
    /\ previewWrites = 0
    /\ geo = "none"
    /\ raster = NoRaster
    /\ preview = NoPreview
    /\ vrt = FALSE
    /\ run = FirstRun
    /\ other = NoOther

FilterNext == set_layer_filter \/ set_filter_mode

FilterSpec == FilterInit /\ [][FilterNext]_vars

---------------------------------------------------------------------------
(* Two sessions in one working directory *)

\* Every session has its own State, but lines 765-768 name the output files
\* by coordinate and date under os.getcwd()/assets, which the sessions of
\* one server share.  The second session is followed through its own lines
\* 770-772 only; this session runs from the band extraction on.

\* the stack a run reads from the given items, all of them complete
RECURSIVE StackOf(_, _)
StackOf(its, i) ==
    IF i > Len(its) THEN <<>>
    ELSE LET bands == Hrefs(its[i].assets, _bands_for_collection(its[i].collection))
         IN  [k \in 1..Len(bands) |-> [acq |-> i, band |-> bands[k]]]
             \o StackOf(its, i + 1)

ConcItem(id) == [collection |-> id, datetime |-> 20, assets |-> AllBands]

\* what either session can have found: three Sentinel items, or two Landsat
\* items around a Sentinel one
ConcItems ==
    {<<ConcItem("HLSS30.v2.0"), ConcItem("HLSS30.v2.0"), ConcItem("HLSS30.v2.0")>>,
     <<ConcItem("HLSL30.v2.0"), ConcItem("HLSS30.v2.0"), ConcItem("HLSL30.v2.0")>>}

\* the other session, its stack complete, about to write: at this session's
\* coordinate and date or at another latitude
OtherRuns ==
    {[pc |-> "write", lat |-> la, lon |-> 2, date |-> 20, stack |-> StackOf(its, 1)] :
        la \in {48, 50}, its \in ConcItems}

OtherTif == OutPath(other.lat, other.lon, other.date, "tif")
SamePath == OtherTif = OutPath(lat.v, lon.v, date_str, "tif")

\* line 770 in the other session: rasterio.open(out_tif, "w") creates the
\* file, or truncates the one that is there
Other_Create ==
    /\ other.pc = "write"
    /\ \E outcome \in {"ok", "open fails"} :
         IF outcome = "open fails"
         THEN /\ other' = [other EXCEPT !.pc = "raised"]
              /\ UNCHANGED <<files, raster>>
         ELSE /\ other' = [other EXCEPT !.pc = "writing"]
              /\ files' = files \cup {OtherTif}
              /\ raster' = IF SamePath
                           THEN [bands |-> <<>>,
                                 meta |-> MetaAfterRead(NoMeta, other.stack[1].acq,
                                                        other.stack[1].band)]
                           ELSE raster
    /\ UNCHANGED <<fields, backend, lat, lon, items, found, searchLocals,
                   extractLocals, searchHist, probeHist, geocodes, geo, pc,
                   rasterWrites, previewWrites, preview, run, layers>>

\* lines 771-772 in the other session: its bands go into the file, all of
\* them or the first few before a failure
Other_WriteBands ==
    /\ other.pc = "writing"
    /\ \E n \in 0..Len(other.stack) :
         /\ other' = [other EXCEPT !.pc = IF n = Len(other.stack)
                                          THEN "written" ELSE "raised"]
         /\ raster' = IF SamePath
                      THEN [bands |-> BandsWritten(other.stack, n),
                            meta |-> MetaAfterRead(NoMeta, other.stack[1].acq,
                                                   other.stack[1].band)]
                      ELSE raster
    /\ UNCHANGED <<fields, backend, lat, lon, items, found, searchLocals,
                   extractLocals, searchHist, probeHist, geocodes, geo, pc, files,
                   rasterWrites, previewWrites, preview, run, layers>>

ConcInit ==
    /\ items \in ConcItems
    /\ other \in OtherRuns
    /\ input_lat = "48.0"
    /\ input_lon = "2.0"
    /\ input_address = ""
    /\ date_str = 20
    /\ fetch_status = StStarting
    /\ tile_path = NoPath
    /\ preview_png = NoPath
    /\ backend = TRUE
    /\ pc = "item"
    /\ lat = Float(48)
    /\ lon = Float(2)
    /\ item_i = 1
    /\ hrefs = <<>>
    /\ href_i = 0
    /\ arrays = <<>>
    /\ meta_template = NoMeta
    /\ start_date = SearchWindow(20).start
    /\ end_date = SearchWindow(20).end
    /\ feats_all = <<>>
    /\ coll_i = 0
    /\ files = {}
    /\ requests = <<[strategy |-> 1, coll |-> "",
                     start |-> SearchWindow(20).start,
                     end |-> SearchWindow(20).end]>>
    /\ last = NoAnswer
    /\ found = <<>>
    /\ geocodes = 0
    /\ preflights = 0
    /\ opens = 0
    /\ authFails = 0
    /\ rasterWrites = 0
    /\ previewWrites = 0
    /\ geo = "none"
    /\ raster = NoRaster
    /\ preview = NoPreview
    /\ vrt = FALSE
    /\ run = FirstRun
    /\ layers = LayerDefaults(<<>>)

ConcNext ==
    \/ NextItem \/ Preflight \/ OpenRead \/ CountCheck \/ WriteRaster \/ Preview
    \/ Other_Create \/ Other_WriteBands

ConcSpec == ConcInit /\ [][ConcNext]_vars

---------------------------------------------------------------------------
(* Claims about the band stack and the output files *)

NoOutput == files = {} /\ rasterWrites = 0 /\ previewWrites = 0

\* C1: the raster and the preview are written only in a run whose band
\* stack holds exactly 18 arrays when extraction ends; a run that ends
\* with the empty search, with a 401/403 preflight or with a count other
\* than 18 creates no file, and the count-mismatch status names the number
\* of arrays obtained.
C1_OutputOnlyForCompleteStack ==
    /\ ~NoOutput => /\ Len(arrays) = 18
                    /\ item_i > Len(items)
                    /\ pc \in {"preview", "ret_ready", "raised"}
    /\ pc \in {"ret_noitems", "ret_unauth", "ret_count"} => NoOutput
    /\ pc = "ret_count" =>
          /\ Len(arrays) # 18
          /\ fetch_status = "Expected 18 band slices, got "
                               \o ToString(Len(arrays)) \o "."

\* a run that read two acquisitions in full, skipped the third and wrote nothing
C1_Witness ==
    /\ pc = "ret_count"
    /\ Len(arrays) = 12
    /\ NoOutput

\* C2: the first preflight answered 401 or 403 ends the run at once with
\* the Unauthorized status: that probe is the last remote call of the run
\* (one probe per band read before it, none after, none repeated), and no
\* file is written.
C2_UnauthorizedStopsRun ==
    /\ authFails <= 1
    /\ authFails = 1 =>
          /\ pc = "ret_unauth"
          /\ fetch_status = StUnauthorized
          /\ preflights = Len(arrays) + 1
          /\ opens = Len(arrays)
          /\ NoOutput
    /\ pc = "ret_unauth" => authFails = 1

\* the probe of the third band of the second acquisition is refused while
\* a third acquisition is still waiting
C2_Witness ==
    /\ pc = "ret_unauth"
    /\ Len(arrays) = 8
    /\ item_i = 2
    /\ Len(items) = 3

\* the selected acquisitions all six bands of which are in the band stack
ReadInFull ==
    { a \in 1..Len(items) :
        \A k \in 1..6 :
          \E j \in 1..Len(arrays) :
            arrays[j] = [acq |-> a,
                         band |-> _bands_for_collection(items[a].collection)[k]] }

\* C3: at the band-count check the band stack holds 6 arrays for each
\* selected acquisition read in full and nothing else; its length is a
\* multiple of 6 whatever assets are missing.
C3_StackIsSixPerAcquisition ==
    pc = "check" =>
        /\ Len(arrays) = 6 * Cardinality(ReadInFull)
        /\ Len(arrays) % 6 = 0
        /\ \A j \in 1..Len(arrays) : arrays[j].acq \in ReadInFull

\* the check is reached with one acquisition skipped for a missing band
C3_Witness ==
    /\ pc = "check"
    /\ Len(items) = 3
    /\ Len(arrays) = 12
    /\ \E a \in 1..3 :
         FirstMissing(items[a].assets,
                      _bands_for_collection(items[a].collection)) # 0

---------------------------------------------------------------------------
(* Claims about the catalog search *)

\* the strategies of the requests issued so far, in order
StrategyTrace == [i \in 1..Len(requests) |-> requests[i].strategy]

NonEmpty(a) == a.ok /\ a.list # <<>>

C4_Order ==
    StrategyTrace \in { <<>>, <<1>>, <<1, 2>>, <<1, 2, 3>>, <<1, 2, 3, 3>>,
                        <<1, 2, 3, 4>>, <<1, 2, 3, 3, 4>> }

C4_FirstNonEmptyWins ==
    /\ pc = "s2" => ~NonEmpty(last)
    /\ (pc = "s3" /\ coll_i = 1) => ~NonEmpty(last)
    /\ pc = "s4" => ~last.ok
    /\ (pc = "searched" /\ requests # <<>>) =>
          LET k == requests[Len(requests)].strategy IN
          /\ k \in {1, 2} => NonEmpty(last) /\ items = last.list
          /\ k = 3 => last.ok
          /\ k = 4 => /\ Len(items) = Len(last.list)
                      /\ \A i \in 1..Len(items) :
                           /\ items[i].datetime = last.list[i].time_start
                           /\ items[i].assets = {}

C4_Step ==
    /\ (pc = "s3" /\ pc' = "searched") => items' = feats_all \o last'.list
    /\ pc \notin QuerySites => requests' = requests

\* C4: the strategies are queried in the order point POST, bbox POST,
\* per-collection GETs, granule GET; the first non-empty result set is
\* what the search returns, and after the return no further catalog
\* request is issued.
C4_CascadeInOrder ==
    /\ [](C4_Order /\ C4_FirstNonEmptyWins)
    /\ [][C4_Step]_vars

\* the bbox POST answered with items: returned, strategies 3 and 4 unused
C4_Witness ==
    /\ pc = "searched"
    /\ StrategyTrace = <<1, 2>>
    /\ items = <<ItemL30, ItemS30>>

\* C5: for a non-inverted window an empty sequence is returned only after
\* the granule fallback has been queried.
C5_EmptyOnlyAfterGranuleQuery ==
    ( /\ pc = "searched"
      /\ items = <<>>
      /\ date_str - 15 <= Today )
    => \E i \in 1..Len(requests) : requests[i].strategy = 4

\* C8: every catalog request of one search carries the interval from the
\* target date minus 15 days to the earlier of target date plus 15 days
\* and today; its end is never after today nor before its start.
C8_OneClampedWindow ==
    \A i \in 1..Len(requests) :
        /\ requests[i].start = date_str - 15
        /\ requests[i].end = IF date_str + 15 < Today THEN date_str + 15 ELSE Today
        /\ requests[i].end <= Today
        /\ requests[i].start <= requests[i].end

\* all five requests of a search whose window is clamped down to one day
C8_Witness ==
    /\ Len(requests) = 5
    /\ date_str = 55
    /\ requests[5].start = 40
    /\ requests[5].end = 40

C10_Step ==
    /\ pc \in QuerySites => pc' # "raised"
    /\ (pc = "s1" /\ ~last'.ok) => pc' = "s2"
    /\ (pc = "s2" /\ ~last'.ok) => pc' = "s3"
    /\ (pc = "s3" /\ ~last'.ok) => pc' = "s4"
    /\ (pc = "s4" /\ ~last'.ok) => pc' = "searched" /\ items' = <<>>

\* C10: no failure of a catalog query leaves _search_hls_items: a failed
\* strategy hands over to the next one, and a failed granule query makes
\* the search return the empty sequence.
C10_FailuresAreCaught == [][C10_Step]_vars

\* the search has returned empty after the granule query failed as well
C10_Witness ==
    /\ pc = "searched"
    /\ StrategyTrace = <<1, 2, 3, 4>>
    /\ ~last.ok
    /\ items = <<>>

---------------------------------------------------------------------------
(* Claims about the ranking *)

\* the largest distance a timestamp of the calendar can have from the
\* target date
Farthest ==
    IF date_str - MinDay > MaxDay - date_str THEN date_str - MinDay
    ELSE MaxDay - date_str

\* time distance to the target date; maximal without a usable timestamp
Dist(f) ==
    IF f.datetime = BadStamp THEN Farthest
    ELSE IF f.datetime < date_str THEN date_str - f.datetime
    ELSE f.datetime - date_str

\* found[i] is ranked before found[j]: nearer in time, or equally near and
\* discovered earlier
RanksBefore(i, j) ==
    \/ Dist(found[i]) < Dist(found[j])
    \/ Dist(found[i]) = Dist(found[j]) /\ i < j

PlaceOf(i) == 1 + Cardinality({j \in 1..Len(found) : j # i /\ RanksBefore(j, i)})

\* C6: the three acquisitions kept are the three nearest in time to the
\* target date, nearest first; equal distances keep their discovery
\* order; an item without a usable timestamp counts as maximally distant.
C6_ThreeNearestStable ==
    pc = "ranked" =>
        /\ Len(items) = IF Len(found) < 3 THEN Len(found) ELSE 3
        /\ \A i \in 1..Len(found) :
             PlaceOf(i) <= 3 => items[PlaceOf(i)] = found[i]

\* four found: the untimed one is dropped, the two at distance 2 keep
\* their discovery order behind the one at distance 0
C6_Witness ==
    /\ pc = "ranked"
    /\ date_str = 20
    /\ found = <<ItemL30NoTime, ItemS30NoRed, ItemL30, ItemS30>>
    /\ items = <<ItemS30, ItemS30NoRed, ItemL30>>

---------------------------------------------------------------------------
(* Claims about how a run ends *)

\* C7: with a target date more than 15 days after today the search
\* returns empty without any catalog request, and fetch_tile ends with the
\* no-items status, no preflight, no raster open and no file.
C7_FutureDateEndsWithNoItems ==
    ( /\ date_str # NotADate
      /\ date_str - 15 > Today
      /\ pc \notin {"idle", "geocode", "search", "ret_provide"} )
    => /\ pc \in {"searched", "ret_noitems"}
       /\ items = <<>>
       /\ requests = <<>>
       /\ preflights = 0
       /\ opens = 0
       /\ NoOutput
       /\ pc = "ret_noitems" => fetch_status = StNoItems

FinalStatuses ==
    {StProvide, StNoItems, StBackend, StUnauthorized, StReady}
        \cup {StExpected(n) : n \in 0..17}

\* C9: every run of fetch_tile returns normally and leaves a final status.
C9_AlwaysReturnsWithFinalStatus ==
    /\ pc # "raised"
    /\ pc \in ReturnSites => fetch_status \in FinalStatuses

---------------------------------------------------------------------------
(* Claims about the raster and the preview *)

\* the six band codes of a collection family, in order
FamilyBands(coll_id) ==
    IF coll_id \in {"HLSS30.v2.0", "HLSS30", "HLSS30x"}
    THEN <<"B02", "B03", "B04", "B8A", "B11", "B12">>
    ELSE <<"B02", "B03", "B04", "B05", "B06", "B07">>

\* C11: in a successful run the stack is built acquisitions outer (ranked
\* order), bands inner (the collection's six-band order), and band i of the
\* written raster is the i-th array appended: band 6*(a-1)+b is band b of
\* the a-th ranked acquisition.
C11_RasterBandsInStackOrder ==
    pc = "ret_ready" =>
        /\ Len(raster.bands) = 18
        /\ \A i \in 1..18 : raster.bands[i] = arrays[i]
        /\ \A a \in 1..3 : \A b \in 1..6 :
             raster.bands[6 * (a - 1) + b] =
                 [acq |-> a, band |-> FamilyBands(items[a].collection)[b]]

\* a successful run over acquisitions of both families
C11_Witness ==
    /\ pc = "ret_ready"
    /\ Len(raster.bands) = 18
    /\ items[1].collection = "HLSS30.v2.0"
    /\ items[2].collection = "HLSL30.v2.0"

\* C12 as stated: the raster is tagged with the transform and the pixel
\* dimensions of the last band read, the 18th array of the stack.
C12_MetaFromLastBand ==
    pc = "ret_ready" =>
        /\ raster.meta.acq = arrays[18].acq
        /\ raster.meta.band = arrays[18].band

\* C12 amended: the raster is tagged with the transform and the pixel
\* dimensions recorded for the first band read, the 1st array of the stack,
\* and declares 18 bands.
C12_MetaFromFirstBand ==
    rasterWrites > 0 =>
        /\ raster.meta.set
        /\ raster.meta.count = 18
        /\ raster.meta.acq = arrays[1].acq
        /\ raster.meta.band = arrays[1].band
        /\ raster.meta = meta_template

C12_Witness ==
    /\ pc = "ret_ready"
    /\ raster.meta.acq = 1
    /\ raster.meta.band = "B02"
    /\ arrays[18] = [acq |-> 3, band |-> "B12"]

\* C13: the preview's red, green and blue channels are stack entries 15, 14
\* and 13: bands B04, B03 and B02 of the third acquisition, for both
\* collection families.
C13_PreviewIsRGBOfThird ==
    preview.outcome = "ok" =>
        /\ preview.channels = <<arrays[15], arrays[14], arrays[13]>>
        /\ preview.channels = <<[acq |-> 3, band |-> "B04"],
                                [acq |-> 3, band |-> "B03"],
                                [acq |-> 3, band |-> "B02"]>>

\* a preview built from a third acquisition of the Landsat family
C13_Witness ==
    /\ preview.outcome = "ok"
    /\ preview_png # NoPath
    /\ items[3].collection = "HLSL30.v2.0"

\* C14: the acquisition that feeds the preview has the latest timestamp of
\* the three selected (stated for runs in which all three timestamps parse).
C14_PreviewFromLatest ==
    ( /\ preview.outcome = "ok"
      /\ \A a \in 1..3 : items[a].datetime # BadStamp )
    => \A a \in 1..3 :
         items[a].datetime <= items[preview.channels[1].acq].datetime

\* C15: a preview failure after the raster was written still ends the run
\* as a success: fetch_tile returns, tile_path names the written raster and
\* preview_png is empty.
C15_PreviewFailureIsNotFatal ==
    preview.outcome = "failed" =>
        /\ pc = "ret_ready"
        /\ tile_path = OutPath(lat.v, lon.v, date_str, "tif")
        /\ tile_path \in files
        /\ Len(raster.bands) = 18
        /\ preview_png = NoPath

\* the save itself failed, leaving a partial image behind
C15_Witness ==
    /\ preview.outcome = "failed"
    /\ pc = "ret_ready"
    /\ previewWrites = 1
    /\ OutPath(lat.v, lon.v, date_str, "png") \in files

\* C16: the final status of a run whose preview failed tells the caller so:
\* it differs from the status of a run whose preview succeeded.
C16_StatusTellsPreviewFailed ==
    (pc = "ret_ready" /\ preview.outcome = "failed") => fetch_status # StReady

---------------------------------------------------------------------------
(* Claims about locating the point *)

\* the input texts float() accepts, and the addresses strip() empties
NumericTexts == {"48.0", "95.0", "2.0", "40.000000", "-3.000000"}
BlankTexts == {"", "   "}

C17_Step ==
    geocodes' # geocodes =>
        /\ geocodes = 0
        /\ geocodes' = 1
        /\ input_lat \notin NumericTexts \/ input_lon \notin NumericTexts
        /\ input_address \notin BlankTexts

\* C17: a geocoding request is issued at most once per run, and only when
\* input_lat or input_lon fails to parse and the address is not blank; with
\* both parsing none is issued whatever the address holds.
C17_GeocodeOnlyWhenNeeded ==
    /\ [](geocodes <= 1)
    /\ [](pc \notin {"idle", "geocode"} /\ geocodes = 0 => geo = "none")
    /\ [][C17_Step]_vars

\* both inputs parse, an address is given, and the run went on to the
\* search without a geocoding request
C17_Witness ==
    /\ pc = "search"
    /\ input_lat = "48.0"
    /\ input_lon = "2.0"
    /\ input_address = "Madrid"
    /\ geocodes = 0

\* C18: without a parseable lat/lon pair and without a geocode result (the
\* request failing or answering an empty list included) fetch_tile returns
\* with the "Provide lat/lon or a valid address." status, having issued no
\* catalog request and written no file.
C18_UnresolvedLocationEndsRun ==
    /\ (pc \notin {"idle", "geocode"} /\ (~lat.some \/ ~lon.some))
           => pc = "ret_provide"
    /\ geo \in {"error", "empty"} => pc = "ret_provide"
    /\ pc = "ret_provide" =>
           /\ fetch_status = StProvide
           /\ requests = <<>>
           /\ preflights = 0
           /\ opens = 0
           /\ NoOutput

\* the latitude parses, the longitude does not, and the geocoder fails
C18_Witness ==
    /\ pc = "ret_provide"
    /\ input_lat = "48.0"
    /\ input_lon = ""
    /\ geo = "error"

\* C19: every coordinate handed to the search has its latitude in
\* [-90, 90] and its longitude in [-180, 180].
C19_CoordinateInRange ==
    pc = "search" =>
        /\ lat.v >= -90 /\ lat.v <= 90
        /\ lon.v >= -180 /\ lon.v <= 180

---------------------------------------------------------------------------
(* Claims about the band taxonomy *)

\* C20: for every collection identifier, supported or not, the band list
\* fetch_tile works through for an item is one of exactly 6 band codes:
\* B02, B03, B04, B8A, B11, B12 when the identifier starts with "HLSS30",
\* B02, B03, B04, B05, B06, B07 otherwise; items with the same identifier
\* get the same list.
C20_SixBandsByPrefix ==
    pc \in {"preflight", "open"} =>
        /\ Len(hrefs) = 6
        /\ hrefs = FamilyBands(items[item_i].collection)
        /\ hrefs = _bands_for_collection(items[item_i].collection)
        /\ \A j \in 1..(item_i - 1) :
             items[j].collection = items[item_i].collection =>
                 \A b \in 1..6 :
                     arrays[6 * (j - 1) + b].band = hrefs[b]

\* the third item's identifier only contains "HLSS30", after a first
\* item whose identifier starts with it
C20_Witness ==
    /\ pc = "open"
    /\ item_i = 3
    /\ items[1].collection = "HLSS30x"
    /\ items[2].collection = ""
    /\ items[3].collection = "XHLSS30"
    /\ hrefs = <<"B02", "B03", "B04", "B05", "B06", "B07">>

---------------------------------------------------------------------------
(* Claims about the modular application *)

\* C21: in the modular application a run that ends with "Tile ready." and
\* a tile_path has written an 18-band raster of 3 acquisitions at that
\* path, after the count of 18 was checked.
C21_ReadyMeansRasterWritten ==
    (pc = "ret_ready" /\ fetch_status = StReady /\ tile_path # NoPath) =>
        /\ tile_path \in files
        /\ Len(raster.bands) = 18
        /\ Len(arrays) = 18
        /\ Len(items) = 3

---------------------------------------------------------------------------
(* Claims about remote handles *)

\* C22: the handle opened for a band (the source with any reprojecting
\* wrapper around it) is released before the next band's preflight starts,
\* and none is left open when fetch_tile returns or an exception leaves it.
C22_HandleReleasedPerBand ==
    pc \in {"preflight", "raised"} \cup ReturnSites => ~vrt

---------------------------------------------------------------------------
(* Claims about repeated calls *)

\* the two names a call with this point and date can write
TifName == [lat |-> lat.v, lon |-> lon.v, date |-> date_str, ext |-> "tif"]
PngName == [lat |-> lat.v, lon |-> lon.v, date |-> date_str, ext |-> "png"]

\* this call and the one before it both ended with "Tile ready." and had
\* the same latitude, longitude and date
RepeatedSuccess ==
    /\ run.n > 1
    /\ pc = "ret_ready"
    /\ run.prev.end = "ret_ready"
    /\ run.prev.lat = lat.v
    /\ run.prev.lon = lon.v
    /\ run.prev.date = date_str

\* C23 as stated: the two paths depend on latitude, longitude and date
\* only, and a successful run repeated with identical inputs leaves the
\* number of output files as it was.
C23_RepeatAddsNoFile ==
    /\ files \subseteq run.files \cup {TifName, PngName}
    /\ RepeatedSuccess =>
           /\ tile_path = run.tile
           /\ Cardinality(files) <= Cardinality(run.files)

\* C23 amended: the two paths depend on latitude, longitude and date only;
\* a successful run repeated with identical inputs reports the same raster
\* path and writes no file under a new name: the files are those of the
\* earlier run, plus the preview when the earlier run left none, and that
\* point and date never have more than their two files.
C23_RepeatWritesSameNames ==
    /\ files \subseteq run.files \cup {TifName, PngName}
    /\ pc = "ret_ready" =>
           /\ tile_path = TifName
           /\ preview_png \in {NoPath, PngName}
    /\ RepeatedSuccess =>
           /\ tile_path = run.tile
           /\ { f \in files : /\ f.lat = lat.v
                               /\ f.lon = lon.v
                               /\ f.date = date_str } = {TifName, PngName} \cap files
           /\ files \ run.files \subseteq {PngName}
           /\ PngName \in run.files => files = run.files
           /\ preview_png # NoPath /\ run.png # NoPath => preview_png = run.png

\* the second of two identical successful calls, both with a preview
C23_Witness ==
    /\ RepeatedSuccess
    /\ run.prev.preview = "ok"
    /\ preview.outcome = "ok"
    /\ files = {TifName, PngName}
    /\ rasterWrites = 1

\* the return statements that report a failure
FailureSites == {"ret_provide", "ret_noitems", "ret_backend", "ret_unauth", "ret_count"}

\* C27: a run that ends in a failure status leaves tile_path and
\* preview_png as they were before it, so after a success followed by a
\* failure tile_path still names the earlier raster under a failure status.
C27_FailureKeepsPaths ==
    pc \in FailureSites =>
        /\ tile_path = run.tile
        /\ preview_png = run.png
        /\ fetch_status # StReady

\* a success followed by a run that ends unauthorized
C27_Witness ==
    /\ run.n = 2
    /\ run.prev.end = "ret_ready"
    /\ pc = "ret_unauth"
    /\ fetch_status = StUnauthorized
    /\ tile_path # NoPath
    /\ tile_path \in files

---------------------------------------------------------------------------
(* Claims about retries *)

\* the requests of strategy k issued so far, and those of strategy 3 for
\* one collection
RequestsOf(k) == {i \in 1..Len(requests) : requests[i].strategy = k}
RequestsFor(coll) ==
    {i \in 1..Len(requests) : requests[i].strategy = 3 /\ requests[i].coll = coll}

\* C24: within one search no strategy is retried: at most one POST for
\* strategy 1, one for strategy 2, one GET per collection for strategy 3 and
\* one GET for strategy 4, at most 5 requests in all; and fetch_tile enters
\* the search once, with nothing requested before.
C24_NoStrategyRetried ==
    /\ Cardinality(RequestsOf(1)) <= 1
    /\ Cardinality(RequestsOf(2)) <= 1
    /\ Cardinality(RequestsOf(4)) <= 1
    /\ \A coll \in {"HLSS30.v2.0", "HLSL30.v2.0"} :
         Cardinality(RequestsFor(coll)) <= 1
    /\ Cardinality(RequestsOf(3)) <= 2
    /\ Len(requests) <= 5
    /\ pc = "search" => requests = <<>>
    /\ pc \notin {"search"} \cup QuerySites /\ requests # <<>> =>
           \A i \in 1..Len(requests) :
               /\ requests[i].start = requests[1].start
               /\ requests[i].end = requests[1].end

\* all five requests were issued, and the granule query failed
C24_Witness ==
    /\ pc = "ret_noitems"
    /\ StrategyTrace = <<1, 2, 3, 3, 4>>
    /\ ~last.ok

---------------------------------------------------------------------------
(* Claims about parallel sessions *)

\* C25: a run of fetch_tile beside another session's run reports what it
\* would report alone: when it returns "Tile ready." the raster at the path
\* it reports exists and holds the 18 bands this run read, under the
\* metadata this run took from its first band.
C25_RunAsIfAlone ==
    pc = "ret_ready" =>
        /\ tile_path \in files
        /\ raster.bands = arrays
        /\ raster.meta = meta_template

---------------------------------------------------------------------------
(* Claims about the spatial buffer *)

BoxRequests == {i \in 1..Len(requests) : requests[i].strategy \in {2, 3}}
LonBuffer(i) == requests[i].bbox.east - lon.v * Micro
LatBuffer(i) == requests[i].bbox.north - lat.v * Micro

\* C26: for a fixed radius the latitude buffer of _deg_buffer is the same at
\* every latitude, the longitude buffer does not shrink as |lat| grows
\* towards 90, and it never exceeds radius/11132 degrees, the poles and the
\* latitudes beyond them included: in every bounding box a search sends, and
\* for the 500 m window of fetch_tile.
C26_BufferBounded ==
    /\ \A i \in BoxRequests :
         /\ requests[i].bbox.south = lat.v * Micro - LatBuffer(i)
         /\ requests[i].bbox.west = lon.v * Micro - LonBuffer(i)
         /\ LatBuffer(i) = (200 * Micro) \div 111320
         /\ LonBuffer(i) >= LatBuffer(i)
         /\ LonBuffer(i) <= (200 * Micro) \div 11132
         /\ \A k \in 1..Len(PolarLats) :
              LET here == IF lat.v < 0 THEN -lat.v ELSE lat.v
                  there == IF PolarLats[k] < 0 THEN -PolarLats[k] ELSE PolarLats[k]
                  d == _deg_buffer(PolarLats[k], 200)
              IN  /\ d.dlat = LatBuffer(i)
                  /\ there <= here /\ here <= 90 => d.dlon <= LonBuffer(i)
                  /\ there >= here => d.dlon >= LonBuffer(i)
    /\ lat.some =>
         /\ _deg_buffer(lat.v, 500).dlat = (500 * Micro) \div 111320
         /\ _deg_buffer(lat.v, 500).dlon >= _deg_buffer(lat.v, 500).dlat
         /\ _deg_buffer(lat.v, 500).dlon <= (500 * Micro) \div 11132

\* a box was sent from a pole, its longitude buffer at the bound
C26_Witness ==
    /\ lat.v \in {90, -90}
    /\ \E i \in BoxRequests :
         /\ requests[i].strategy = 3
         /\ LonBuffer(i) = (200 * Micro) \div 11132
         /\ LonBuffer(i) > 9 * LatBuffer(i)

---------------------------------------------------------------------------
(* Claims about the granule fallback *)

\* the search returned what strategy 4 synthesized
FromGranules ==
    /\ requests # <<>>
    /\ requests[Len(requests)].strategy = 4
    /\ items # <<>>

\* C28 as stated: items synthesized by strategy 4 have no assets and are
\* skipped with nothing appended; a run on them sends no preflight, writes
\* no file and ends with the count-mismatch status naming 0 band slices.
C28_GranulesEndInCountMismatch ==
    FromGranules =>
        /\ \A k \in 1..Len(items) : items[k].assets = {}
        /\ arrays = <<>>
        /\ preflights = 0
        /\ NoOutput
        /\ pc \in ReturnSites =>
               pc = "ret_count" /\ fetch_status = StExpected(0)

\* C28, amended: items synthesized by strategy 4 have no assets and are
\* skipped with nothing appended; a run on them sends no preflight, opens
\* no asset and writes no file; it ends with the count-mismatch status
\* naming 0 band slices when the raster backend is there, and with the
\* backend-missing status, before any item is looked at, when it is not.
C28_GranulesReadNothing ==
    FromGranules =>
        /\ \A k \in 1..Len(items) : items[k].assets = {}
        /\ arrays = <<>>
        /\ preflights = 0
        /\ opens = 0
        /\ NoOutput
        /\ pc # "raised"
        /\ pc \in ReturnSites =>
               IF backend
               THEN pc = "ret_count" /\ fetch_status = StExpected(0)
               ELSE pc = "ret_backend" /\ fetch_status = StBackend

\* two synthesized items were skipped and the run ended with "got 0"
C28_Witness ==
    /\ FromGranules
    /\ Len(items) = 2
    /\ item_i = 3
    /\ backend
    /\ pc = "ret_count"
    /\ fetch_status = StExpected(0)

---------------------------------------------------------------------------
(* Claims about skipped acquisitions *)

\* the selected acquisitions lacking the asset of one of their six bands
Incomplete ==
    {a \in 1..Len(items) :
        FirstMissing(items[a].assets, _bands_for_collection(items[a].collection)) # 0}

\* fetch_tile is past "items = items[:3]"
AfterSelection ==
    \/ pc \in {"ranked", "item", "preflight", "open", "check", "write", "preview",
               "ret_backend", "ret_unauth", "ret_count", "ret_ready"}
    \/ pc = "raised" /\ item_i >= 1

\* the search returned fewer than 3 items, or a selected acquisition is one
\* the loop skips
ShortRun ==
    \/ pc = "ret_noitems"
    \/ AfterSelection /\ (Len(items) < 3 \/ Incomplete # {})

\* no preflight or read is for an incomplete acquisition, none of its bands
\* is in the stack, and the loop goes on to read every complete one
SkippedWhole ==
    /\ pc \in {"preflight", "open"} => item_i \notin Incomplete
    /\ AfterSelection =>
         \A a \in Incomplete : \A j \in 1..Len(arrays) : arrays[j].acq # a
    /\ pc = "check" => ReadInFull = (1..Len(items)) \ Incomplete

---------------------------------------------------------------------------
(* Claims about the layer filter *)

\* the query is not blank, the mode is regex and the query does not compile
InvalidRegex(L) ==
    /\ strip(L.layer_filter) # <<>>
    /\ ModeOf(L.filter_mode) = "regex"
    /\ ~RegexCompiles(L.layer_filter)

FilterConsistent(L) ==
    /\ L.match_count = Len(L.filtered_layers)
    /\ \A i \in 1..Len(L.filtered_layers) :
         IsIn(L.filtered_layers[i], L.AVAILABLE_LAYERS)
    /\ strip(L.layer_filter) = <<>> => L.filtered_layers = L.AVAILABLE_LAYERS
    /\ L.filtered_layers # <<>> => IsIn(L.selected_layer, L.filtered_layers)
    /\ InvalidRegex(L) => L.filtered_layers = <<>> /\ L.regex_error # ""
    /\ ~InvalidRegex(L) => L.regex_error = ""

C30_Step ==
    layers' # layers /\ InvalidRegex(layers') =>
        layers'.selected_layer = layers.selected_layer

\* C30: after any sequence of set_layer_filter and set_filter_mode calls,
\* match_count is the length of filtered_layers; filtered_layers holds only
\* members of AVAILABLE_LAYERS, all of them for a blank query; selected_layer
\* is in filtered_layers when that is not empty; an invalid regex in regex
\* mode gives an empty filtered_layers, a non-empty regex_error and leaves
\* selected_layer as it was; every other call leaves regex_error empty.
C30_FilterConsistent ==
    /\ [](FilterConsistent(layers))
    /\ [][C30_Step]_vars

\* a layer chosen by an earlier filter survives an invalid regex
C30_Witness ==
    /\ layers.AVAILABLE_LAYERS = <<LayerAb, LayerBa, LayerbA>>
    /\ layers.layer_filter = <<"a", "(">>
    /\ layers.filter_mode = "REGEX"
    /\ layers.filtered_layers = <<>>
    /\ layers.match_count = 0
    /\ layers.regex_error # ""
    /\ layers.selected_layer = LayerbA

=============================================================================
